---- MODULE Spec2Model ----
(***************************************************************************)
(* Model of ramhorns' content-rendering protocol (src/content.rs): the     *)
(* `Content` trait, its default methods and the built-in implementations   *)
(* for &str, String, bool, the numeric types, Option<T>, Result<T, U>,     *)
(* Vec<T>, &[T], HashMap<K, V> and BTreeMap<K, V>.                         *)
(*                                                                         *)
(* A Rust string is its UTF-8 byte sequence; here a string is a sequence   *)
(* of one-character strings, one per byte, so Len is str::len().           *)
(* A content value is a tuple whose first element names the Rust type.     *)
(* The Encoder and Section::render_once are collaborators of content.rs;   *)
(* the encoder records every write it is asked for and may fail one write. *)
(***************************************************************************)
EXTENDS Integers, Sequences, FiniteSets, TLC

\* ---------------------------------------------------------------- bounds
MaxStrLen == 2
MaxVecLen == 2
MaxFailAt == 2

\* ---------------------------------------------------------------- values
Chars == {"a", "<", "&"}
Strs == UNION {[1..n -> Chars] : n \in 0..MaxStrLen}
ShortStrs == {<<>>, <<"a">>, <<"<">>}
Nums == {0, 1}
FailureDetails == {"d1", "d2"}
Names == {"name", "x"}
Hashes == {0, 1}
SinkErrors == {"io1", "io2"}

StrRef(s) == <<"&str", s>>
StringOf(s) == <<"String", s>>
Bool(b) == <<"bool", b>>
Num(n) == <<"num", n>>
None == <<"None">>
Some(x) == <<"Some", x>>
Ok(x) == <<"Ok", x>>
Err(e) == <<"Err", e>>
VecOf(items) == <<"Vec", items>>
SliceOf(items) == <<"&[T]", items>>
HashMapOf(m) == <<"HashMap", m>>
BTreeMapOf(m) == <<"BTreeMap", m>>

Kind(v) == v[1]
IsText(v) == Kind(v) \in {"&str", "String"}
IsSeq(v) == Kind(v) \in {"Vec", "&[T]"}
IsMap(v) == Kind(v) \in {"HashMap", "BTreeMap"}

Scalars ==
    {StrRef(s) : s \in Strs} \cup {StringOf(s) : s \in ShortStrs}
        \cup {Bool(b) : b \in BOOLEAN} \cup {Num(n) : n \in Nums}

Wrap(S) ==
    {None} \cup {Some(x) : x \in S} \cup {Ok(x) : x \in S}
        \cup {Err(e) : e \in FailureDetails}

MapVals ==
    {StrRef(<<>>), StrRef(<<"a">>), StrRef(<<"<">>), Bool(FALSE), None,
     Some(StrRef(<<"&">>)), VecOf(<<StrRef(<<"a">>), StrRef(<<>>)>>)}

MapBodies == UNION {[D -> MapVals] : D \in SUBSET Names}
Maps == {HashMapOf(m) : m \in MapBodies} \cup {BTreeMapOf(m) : m \in MapBodies}

SeqElems ==
    {StrRef(<<"a">>), Bool(FALSE), None, Some(StrRef(<<"<">>)),
     HashMapOf(<<>>), HashMapOf([name |-> StrRef(<<"a">>)]),
     HashMapOf([name |-> StrRef(<<"<">>)]), BTreeMapOf([x |-> StrRef(<<"a">>)])}

SeqBodies == UNION {[1..n -> SeqElems] : n \in 0..MaxVecLen}
Seqs == {VecOf(b) : b \in SeqBodies} \cup {SliceOf(b) : b \in SeqBodies}

\* The sequence [{"name": "A"}, {"name": "B"}].
Example ==
    VecOf(<<HashMapOf([name |-> StrRef(<<"A">>)]), HashMapOf([name |-> StrRef(<<"B">>)])>>)

Nested ==
    Wrap({None, Some(StrRef(<<"a">>)), Err("d1"), Ok(Bool(FALSE)),
          VecOf(<<>>), VecOf(<<StrRef(<<"a">>), StrRef(<<"a">>)>>),
          HashMapOf([name |-> StrRef(<<"a">>)])})

Values == Scalars \cup Wrap(Scalars) \cup Nested \cup Maps \cup Seqs \cup {Example}

\* ------------------------------------------------------- the output sink
\* An encoder: the bytes written so far, the calls made on the collaborators
\* in order (each write with its argument and whether it succeeded, each
\* Section::render_once with the content it received), the number of writes
\* asked for, and the one write (failAt, 0 for none) that fails with failErr.
NewEncoder(failAt, failErr) ==
    [out |-> <<>>, log |-> <<>>, writes |-> 0, failAt |-> failAt, failErr |-> failErr]

R(res, enc) == [res |-> res, enc |-> enc]

Success == "ok"

EscapeByte(c) ==
    CASE c = "<" -> <<"&", "l", "t", ";">>
      [] c = ">" -> <<"&", "g", "t", ";">>
      [] c = "&" -> <<"&", "a", "m", "p", ";">>
      [] c = "\"" -> <<"&", "q", "u", "o", "t", ";">>
      [] OTHER -> <<c>>

RECURSIVE Escape(_)
Escape(s) == IF s = <<>> THEN <<>> ELSE EscapeByte(Head(s)) \o Escape(Tail(s))

Digit(d) == CASE d = 0 -> "0" [] d = 1 -> "1" [] d = 2 -> "2" [] d = 3 -> "3"
              [] d = 4 -> "4" [] d = 5 -> "5" [] d = 6 -> "6" [] d = 7 -> "7"
              [] d = 8 -> "8" [] d = 9 -> "9"

RECURSIVE Display(_)
Display(n) == IF n < 10 THEN <<Digit(n)>> ELSE Display(n \div 10) \o <<Digit(n % 10)>>

\* crate::cmark::encode: the text converted to final markup, one paragraph.
Markup(s) ==
    IF s = <<>> THEN <<>> ELSE <<"<", "p", ">">> \o Escape(s) \o <<"<", "/", "p", ">">>

Emit(kind, arg) ==
    CASE kind = "write_escaped" -> Escape(arg)
      [] kind = "write_unescaped" -> arg
      [] kind = "format_unescaped" -> Display(arg)
      [] kind = "cmark" -> Markup(arg)

Write(enc, kind, arg) ==
    IF enc.writes + 1 = enc.failAt
    THEN R(enc.failErr, [enc EXCEPT !.log = Append(@, <<kind, arg, FALSE>>),
                                    !.writes = @ + 1])
    ELSE R(Success, [enc EXCEPT !.log = Append(@, <<kind, arg, TRUE>>),
                                !.writes = @ + 1,
                                !.out = @ \o Emit(kind, arg)])

write_escaped(enc, s) == Write(enc, "write_escaped", s)
write_unescaped(enc, s) == Write(enc, "write_unescaped", s)
format_unescaped(enc, n) == Write(enc, "format_unescaped", n)
cmark_encode(s, enc) == Write(enc, "cmark", s)

\* The `?` operator followed by Ok(()): an error returns at once, unchanged.
Try(r) == IF r.res # Success THEN r ELSE R(Success, r.enc)

\* ------------------------------------------------------------ sections
\* A Section is a compiled sub-tree: here a list of literal text and escaped
\* field tags.  HashOf is the hash the template compiler stored for a tag.
Text(s) == <<"text", s>>
Var(n) == <<"var", n>>
HashOf(n) == IF n = "name" THEN 0 ELSE 1
Sections ==
    {<<Text(<<"-">>)>>, <<Var("name")>>, <<Text(<<"[">>), Var("name"), Text(<<"]">>)>>}
Templates == {"tpl1", "tpl2"}

RECURSIVE is_truthy(_), capacity_hint(_, _)
RECURSIVE render_escaped(_, _), render_unescaped(_, _), render_cmark(_, _)
RECURSIVE render_section(_, _, _), render_inverse(_, _, _)
RECURSIVE render_field_escaped(_, _, _, _), render_field_unescaped(_, _, _, _)
RECURSIVE render_field_section(_, _, _, _, _), render_field_inverse(_, _, _, _, _)
RECURSIVE RenderNodes(_, _, _)

RenderNode(node, content, enc) ==
    IF node[1] = "text"
    THEN write_unescaped(enc, node[2])
    ELSE render_field_escaped(content, HashOf(node[2]), node[2], enc)

RenderNodes(nodes, content, enc) ==
    IF nodes = <<>> THEN R(Success, enc)
    ELSE LET r == RenderNode(Head(nodes), content, enc)
         IN  IF r.res # Success THEN r ELSE RenderNodes(Tail(nodes), content, r.enc)

\* Section::render_once: renders the section's body once against `content`.
render_once(section, content, enc) ==
    RenderNodes(section, content,
                [enc EXCEPT !.log = Append(@, <<"render_once", content, TRUE>>)])

\* ------------------------------------------- trait Content, default methods
Default_is_truthy(self) == TRUE
Default_capacity_hint(self, tpl) == 0
Default_render_escaped(self, enc) == R(Success, enc)
Default_render_unescaped(self, enc) == render_escaped(self, enc)
Default_render_cmark(self, enc) == render_escaped(self, enc)
Default_render_section(self, section, enc) ==
    IF is_truthy(self) THEN render_once(section, self, enc) ELSE R(Success, enc)
Default_render_inverse(self, section, enc) ==
    IF ~is_truthy(self) THEN render_once(section, self, enc) ELSE R(Success, enc)
Default_render_field_escaped(self, hash, name, enc) == R(Success, enc)
Default_render_field_unescaped(self, hash, name, enc) == R(Success, enc)
Default_render_field_section(self, hash, name, section, enc) == R(Success, enc)
Default_render_field_inverse(self, hash, name, section, enc) == R(Success, enc)

\* ------------------------------------------------------- impl for &str
Str_is_truthy(self) == Len(self[2]) # 0
Str_capacity_hint(self, tpl) == Len(self[2])
Str_render_escaped(self, enc) == write_escaped(enc, self[2])
Str_render_unescaped(self, enc) == write_unescaped(enc, self[2])
Str_render_cmark(self, enc) == cmark_encode(self[2], enc)

\* ------------------------------------------------------ impl for String
String_is_truthy(self) == Len(self[2]) # 0
String_capacity_hint(self, tpl) == Len(self[2])
\* String written without escaping.
String_render_escaped_raw(self, enc) == write_unescaped(enc, self[2])
String_render_escaped(self, enc) == write_escaped(enc, self[2])
String_render_unescaped(self, enc) == write_unescaped(enc, self[2])
String_render_cmark(self, enc) == cmark_encode(self[2], enc)

\* -------------------------------------------------------- impl for bool
Bool_is_truthy(self) == self[2]
Bool_capacity_hint(self, tpl) == 5
Bool_render_escaped(self, enc) ==
    write_unescaped(enc, IF self[2] THEN <<"t", "r", "u", "e">>
                                    ELSE <<"f", "a", "l", "s", "e">>)

\* ------------------------------------------------- impl_number_types!
Num_is_truthy(self) == self[2] # 0
Num_capacity_hint(self, tpl) == 5
Num_render_escaped(self, enc) == format_unescaped(enc, self[2])

\* --------------------------------------------------- impl for Option<T>
Option_is_truthy(self) == Kind(self) = "Some"
\* Option<T> without its capacity_hint override.
Option_capacity_hint_default(self, tpl) == Default_capacity_hint(self, tpl)
Option_capacity_hint(self, tpl) ==
    IF Kind(self) = "Some" THEN capacity_hint(self[2], tpl) ELSE 0
Option_render_escaped(self, enc) ==
    IF Kind(self) = "Some" THEN Try(render_escaped(self[2], enc)) ELSE R(Success, enc)
Option_render_unescaped(self, enc) ==
    IF Kind(self) = "Some" THEN Try(render_unescaped(self[2], enc)) ELSE R(Success, enc)
\* Option<T> handing the section to the inner value's own render_section.
Option_render_section_inner(self, section, enc) ==
    IF Kind(self) = "Some" THEN Try(render_section(self[2], section, enc))
    ELSE R(Success, enc)
Option_render_section(self, section, enc) ==
    IF Kind(self) = "Some" THEN Try(render_once(section, self[2], enc)) ELSE R(Success, enc)

\* ------------------------------------------------ impl for Result<T, U>

\* Result<T, U> without its is_truthy override.
Result_is_truthy_default(self) == Default_is_truthy(self)
Result_is_truthy(self) == Kind(self) = "Ok"
Result_capacity_hint(self, tpl) ==
    IF Kind(self) = "Ok" THEN capacity_hint(self[2], tpl) ELSE 0
Result_render_escaped(self, enc) ==
    IF Kind(self) = "Ok" THEN Try(render_escaped(self[2], enc)) ELSE R(Success, enc)
Result_render_unescaped(self, enc) ==
    IF Kind(self) = "Ok" THEN Try(render_unescaped(self[2], enc)) ELSE R(Success, enc)
Result_render_section(self, section, enc) ==
    IF Kind(self) = "Ok" THEN Try(render_once(section, self[2], enc)) ELSE R(Success, enc)

\* ------------------------------------------- impl for Vec<T> and &[T]
\* for item in self.iter() { section.render_once(item, encoder)?; } Ok(())
RECURSIVE Vec_render_section_from(_, _, _)
Vec_render_section_from(items, section, enc) ==
    IF items = <<>> THEN R(Success, enc)
    ELSE LET r == render_once(section, Head(items), enc)
         IN  IF r.res # Success THEN r
             ELSE Vec_render_section_from(Tail(items), section, r.enc)


\* Vec<T> without its is_truthy override.
Vec_is_truthy_default(self) == Default_is_truthy(self)
Vec_is_truthy(self) == Len(self[2]) # 0
\* Vec<T> without its render_section override.
Vec_render_section_default(self, section, enc) ==
    Default_render_section(self, section, enc)
Vec_render_section(self, section, enc) == Vec_render_section_from(self[2], section, enc)

\* The loop without `?`: every element is rendered, the first error returned.
RECURSIVE Slice_render_section_from_all(_, _, _)
Slice_render_section_from_all(items, section, enc) ==
    IF items = <<>> THEN R(Success, enc)
    ELSE LET r == render_once(section, Head(items), enc)
             rest == Slice_render_section_from_all(Tail(items), section, r.enc)
         IN  IF r.res # Success THEN R(r.res, rest.enc) ELSE rest
RECURSIVE Slice_render_section_from(_, _, _)
Slice_render_section_from(items, section, enc) ==
    IF items = <<>> THEN R(Success, enc)
    ELSE LET r == render_once(section, Head(items), enc)
         IN  IF r.res # Success THEN r
             ELSE Slice_render_section_from(Tail(items), section, r.enc)

Slice_is_truthy(self) == Len(self[2]) # 0
Slice_render_section(self, section, enc) ==
    Slice_render_section_from(self[2], section, enc)

\* ------------------------------------------------ impl for HashMap<K, V>
\* self.get(name): the lookup is by the literal key; the hash is ignored.
HashMap_is_truthy(self) == DOMAIN self[2] # {}
\* The escaped field lookup rendering the value unescaped.
HashMap_render_field_escaped_raw(self, hash, name, enc) ==
    IF name \in DOMAIN self[2] THEN render_unescaped(self[2][name], enc) ELSE R(Success, enc)
HashMap_render_field_escaped(self, hash, name, enc) ==
    IF name \in DOMAIN self[2] THEN render_escaped(self[2][name], enc) ELSE R(Success, enc)
\* The unescaped field lookup written as a copy of the escaped one.
HashMap_render_field_unescaped_copy(self, hash, name, enc) ==
    IF name \in DOMAIN self[2] THEN render_escaped(self[2][name], enc) ELSE R(Success, enc)
HashMap_render_field_unescaped(self, hash, name, enc) ==
    IF name \in DOMAIN self[2] THEN render_unescaped(self[2][name], enc) ELSE R(Success, enc)
HashMap_render_field_section(self, hash, name, section, enc) ==
    IF name \in DOMAIN self[2] THEN render_section(self[2][name], section, enc)
    ELSE R(Success, enc)
HashMap_render_field_inverse(self, hash, name, section, enc) ==
    IF name \in DOMAIN self[2] THEN render_inverse(self[2][name], section, enc)
    ELSE R(Success, enc)

\* ----------------------------------------------- impl for BTreeMap<K, V>
BTreeMap_is_truthy(self) == DOMAIN self[2] # {}
BTreeMap_render_field_escaped(self, hash, name, enc) ==
    IF name \in DOMAIN self[2] THEN render_escaped(self[2][name], enc) ELSE R(Success, enc)
BTreeMap_render_field_unescaped(self, hash, name, enc) ==
    IF name \in DOMAIN self[2] THEN render_unescaped(self[2][name], enc) ELSE R(Success, enc)
BTreeMap_render_field_section(self, hash, name, section, enc) ==
    IF name \in DOMAIN self[2] THEN render_section(self[2][name], section, enc)
    ELSE R(Success, enc)
BTreeMap_render_field_inverse(self, hash, name, section, enc) ==
    IF name \in DOMAIN self[2] THEN render_inverse(self[2][name], section, enc)
    ELSE R(Success, enc)

\* ------------------------------------ method resolution by the Rust type
IsOption(x) == Kind(x) \in {"Some", "None"}
IsResult(x) == Kind(x) \in {"Ok", "Err"}

is_truthy(self) ==
    CASE Kind(self) = "&str" -> Str_is_truthy(self)
      [] Kind(self) = "String" -> String_is_truthy(self)
      [] Kind(self) = "bool" -> Bool_is_truthy(self)
      [] Kind(self) = "num" -> Num_is_truthy(self)
      [] IsOption(self) -> Option_is_truthy(self)
      [] IsResult(self) -> Result_is_truthy(self)
      [] Kind(self) = "Vec" -> Vec_is_truthy(self)
      [] Kind(self) = "&[T]" -> Slice_is_truthy(self)
      [] Kind(self) = "HashMap" -> HashMap_is_truthy(self)
      [] Kind(self) = "BTreeMap" -> BTreeMap_is_truthy(self)

capacity_hint(self, tpl) ==
    CASE Kind(self) = "&str" -> Str_capacity_hint(self, tpl)
      [] Kind(self) = "String" -> String_capacity_hint(self, tpl)
      [] Kind(self) = "bool" -> Bool_capacity_hint(self, tpl)
      [] Kind(self) = "num" -> Num_capacity_hint(self, tpl)
      [] IsOption(self) -> Option_capacity_hint(self, tpl)
      [] IsResult(self) -> Result_capacity_hint(self, tpl)
      [] OTHER -> Default_capacity_hint(self, tpl)

render_escaped(self, enc) ==
    CASE Kind(self) = "&str" -> Str_render_escaped(self, enc)
      [] Kind(self) = "String" -> String_render_escaped(self, enc)
      [] Kind(self) = "bool" -> Bool_render_escaped(self, enc)
      [] Kind(self) = "num" -> Num_render_escaped(self, enc)
      [] IsOption(self) -> Option_render_escaped(self, enc)
      [] IsResult(self) -> Result_render_escaped(self, enc)
      [] OTHER -> Default_render_escaped(self, enc)

render_unescaped(self, enc) ==
    CASE Kind(self) = "&str" -> Str_render_unescaped(self, enc)
      [] Kind(self) = "String" -> String_render_unescaped(self, enc)
      [] IsOption(self) -> Option_render_unescaped(self, enc)
      [] IsResult(self) -> Result_render_unescaped(self, enc)
      [] OTHER -> Default_render_unescaped(self, enc)

render_cmark(self, enc) ==
    CASE Kind(self) = "&str" -> Str_render_cmark(self, enc)
      [] Kind(self) = "String" -> String_render_cmark(self, enc)
      [] OTHER -> Default_render_cmark(self, enc)

render_section(self, section, enc) ==
    CASE IsOption(self) -> Option_render_section(self, section, enc)
      [] IsResult(self) -> Result_render_section(self, section, enc)
      [] Kind(self) = "Vec" -> Vec_render_section(self, section, enc)
      [] Kind(self) = "&[T]" -> Slice_render_section(self, section, enc)
      [] OTHER -> Default_render_section(self, section, enc)

render_inverse(self, section, enc) == Default_render_inverse(self, section, enc)

render_field_escaped(self, hash, name, enc) ==
    CASE Kind(self) = "HashMap" -> HashMap_render_field_escaped(self, hash, name, enc)
      [] Kind(self) = "BTreeMap" -> BTreeMap_render_field_escaped(self, hash, name, enc)
      [] OTHER -> Default_render_field_escaped(self, hash, name, enc)

render_field_unescaped(self, hash, name, enc) ==
    CASE Kind(self) = "HashMap" -> HashMap_render_field_unescaped(self, hash, name, enc)
      [] Kind(self) = "BTreeMap" -> BTreeMap_render_field_unescaped(self, hash, name, enc)
      [] OTHER -> Default_render_field_unescaped(self, hash, name, enc)

render_field_section(self, hash, name, section, enc) ==
    CASE Kind(self) = "HashMap" ->
            HashMap_render_field_section(self, hash, name, section, enc)
      [] Kind(self) = "BTreeMap" ->
            BTreeMap_render_field_section(self, hash, name, section, enc)
      [] OTHER -> Default_render_field_section(self, hash, name, section, enc)

render_field_inverse(self, hash, name, section, enc) ==
    CASE Kind(self) = "HashMap" ->
            HashMap_render_field_inverse(self, hash, name, section, enc)
      [] Kind(self) = "BTreeMap" ->
            BTreeMap_render_field_inverse(self, hash, name, section, enc)
      [] OTHER -> Default_render_field_inverse(self, hash, name, section, enc)

\* ------------------------------------------------------- state machine
\* One rendering call: a content value and a fresh encoder, then one method
\* of the Content trait applied to them.
VARIABLES v, enc0, pc, op, name, hash, section, tpl, enc, res, hint, truthy

vars == <<v, enc0, pc, op, name, hash, section, tpl, enc, res, hint, truthy>>

NoName == "-"
NoSection == <<>>
NoTemplate == "-"
Pending == "pending"

FailPoints ==
    {NewEncoder(0, "io1")}
        \cup {NewEncoder(k, e) : k \in 1..MaxFailAt, e \in SinkErrors}

Init ==
    /\ v \in Values
    /\ enc0 \in FailPoints
    /\ enc = enc0
    /\ pc = "ready"
    /\ op = "none"
    /\ name = NoName
    /\ hash = 0
    /\ section = NoSection
    /\ tpl = NoTemplate
    /\ res = Pending
    /\ hint = 0
    /\ truthy = FALSE

Finish(o, r) ==
    /\ pc = "ready"
    /\ pc' = "done"
    /\ op' = o
    /\ res' = r.res
    /\ enc' = r.enc
    /\ UNCHANGED <<v, enc0>>

IsTruthy ==
    /\ Finish("is_truthy", R(Pending, enc))
    /\ truthy' = is_truthy(v)
    /\ UNCHANGED <<name, hash, section, tpl, hint>>

CapacityHint ==
    \E t \in Templates :
        /\ Finish("capacity_hint", R(Pending, enc))
        /\ tpl' = t
        /\ hint' = capacity_hint(v, t)
        /\ UNCHANGED <<name, hash, section, truthy>>

RenderEscaped ==
    /\ Finish("render_escaped", render_escaped(v, enc))
    /\ UNCHANGED <<name, hash, section, tpl, hint, truthy>>

RenderUnescaped ==
    /\ Finish("render_unescaped", render_unescaped(v, enc))
    /\ UNCHANGED <<name, hash, section, tpl, hint, truthy>>

RenderCmark ==
    /\ Finish("render_cmark", render_cmark(v, enc))
    /\ UNCHANGED <<name, hash, section, tpl, hint, truthy>>

RenderSection ==
    \E s \in Sections :
        /\ Finish("render_section", render_section(v, s, enc))
        /\ section' = s
        /\ UNCHANGED <<name, hash, tpl, hint, truthy>>

RenderInverse ==
    \E s \in Sections :
        /\ Finish("render_inverse", render_inverse(v, s, enc))
        /\ section' = s
        /\ UNCHANGED <<name, hash, tpl, hint, truthy>>

RenderFieldEscaped ==
    \E h \in Hashes, n \in Names :
        /\ Finish("render_field_escaped", render_field_escaped(v, h, n, enc))
        /\ hash' = h
        /\ name' = n
        /\ UNCHANGED <<section, tpl, hint, truthy>>

RenderFieldUnescaped ==
    \E h \in Hashes, n \in Names :
        /\ Finish("render_field_unescaped", render_field_unescaped(v, h, n, enc))
        /\ hash' = h
        /\ name' = n
        /\ UNCHANGED <<section, tpl, hint, truthy>>

RenderFieldSection ==
    \E h \in Hashes, n \in Names, s \in Sections :
        /\ Finish("render_field_section", render_field_section(v, h, n, s, enc))
        /\ hash' = h
        /\ name' = n
        /\ section' = s
        /\ UNCHANGED <<tpl, hint, truthy>>

RenderFieldInverse ==
    \E h \in Hashes, n \in Names, s \in Sections :
        /\ Finish("render_field_inverse", render_field_inverse(v, h, n, s, enc))
        /\ hash' = h
        /\ name' = n
        /\ section' = s
        /\ UNCHANGED <<tpl, hint, truthy>>

Next ==
    \/ IsTruthy
    \/ CapacityHint
    \/ RenderEscaped
    \/ RenderUnescaped
    \/ RenderCmark
    \/ RenderSection
    \/ RenderInverse
    \/ RenderFieldEscaped
    \/ RenderFieldUnescaped
    \/ RenderFieldSection
    \/ RenderFieldInverse

Spec == Init /\ [][Next]_vars
\* ---------------------------------------------------------- observations
Done(o) == pc = "done" /\ op = o

IsOnce(ev) == ev[1] = "render_once"
IsWrite(ev) == ev[1] # "render_once"

\* The contents render_once received, in order.
Once(e) ==
    LET calls == SelectSeq(e.log, IsOnce)
    IN  [i \in 1..Len(calls) |-> calls[i][2]]

\* The writes the sink was asked for, in order.
Writes(e) == SelectSeq(e.log, IsWrite)

Fresh == NewEncoder(0, "io1")

HasText(sec) == \E i \in 1..Len(sec) : sec[i][1] = "text"

RECURSIVE Concat(_)
Concat(ss) == IF ss = <<>> THEN <<>> ELSE Head(ss) \o Concat(Tail(ss))

\* C1: for every built-in content value and every section, render_section
\* invokes the section body (at least once) exactly when is_truthy holds and
\* render_inverse exactly when it does not; whichever does not invoke it
\* writes nothing and succeeds, and with a body holding literal text and a
\* sink that does not fail the output is non-empty exactly for the one that
\* invokes it.
C1_SectionXorInverse ==
    /\ Done("render_section") => (Once(enc) # <<>> <=> is_truthy(v))
    /\ Done("render_inverse") => (Once(enc) # <<>> <=> ~is_truthy(v))
    /\ (Done("render_section") \/ Done("render_inverse")) =>
          /\ Once(enc) = <<>> => (enc.out = <<>> /\ enc.log = <<>> /\ res = Success)
          /\ (HasText(section) /\ enc0.failAt = 0) =>
                (enc.out # <<>> <=> Once(enc) # <<>>)
    /\ Done("render_section") =>
          (Once(enc) # <<>>) # (Once(render_inverse(v, section, enc0).enc) # <<>>)

C1_Witness ==
    /\ Done("render_section")
    /\ IsSeq(v) /\ Len(v[2]) = 2
    /\ HasText(section)
    /\ enc.out # <<>>
    /\ Once(render_inverse(v, section, enc0).enc) = <<>>

\* C2: render_section on a Vec<T> or &[T] invokes render_once on the
\* elements in source order, one invocation per element: when it returns
\* success it has invoked render_once exactly once per element, the i-th
\* invocation receiving the i-th element, and the output is the concatenation,
\* in that order, of what each invocation writes; when the sink failed the
\* invocations are a prefix of the elements; for an empty sequence nothing is
\* invoked or written.
C2_SequenceIteration ==
    (Done("render_section") /\ IsSeq(v)) =>
        /\ Len(Once(enc)) <= Len(v[2])
        /\ Once(enc) = SubSeq(v[2], 1, Len(Once(enc)))
        /\ res = Success =>
              /\ Once(enc) = v[2]
              /\ enc.out = Concat([i \in 1..Len(v[2]) |->
                                      render_once(section, v[2][i], Fresh).enc.out])
        /\ v[2] = <<>> => (enc.log = <<>> /\ enc.out = <<>> /\ res = Success)

C2_Witness ==
    /\ Done("render_section")
    /\ IsSeq(v) /\ Len(v[2]) = 2 /\ v[2][1] # v[2][2]
    /\ res = Success
    /\ Len(Once(enc)) = 2
    /\ enc.out # <<>>

\* C5: render_section on Some(x) invokes render_once exactly once, with x,
\* whatever x is, and on None never; render_inverse invokes it exactly once
\* on None and never on Some(x).
C5_OptionSection ==
    /\ (Done("render_section") /\ Kind(v) = "Some") => Once(enc) = <<v[2]>>
    /\ (Done("render_section") /\ Kind(v) = "None") => Once(enc) = <<>>
    /\ (Done("render_inverse") /\ Kind(v) = "None") => Len(Once(enc)) = 1
    /\ (Done("render_inverse") /\ Kind(v) = "Some") => Once(enc) = <<>>

C5_Witness ==
    /\ Done("render_section")
    /\ v = Some(VecOf(<<StrRef(<<"a">>), StrRef(<<"a">>)>>))
    /\ Once(enc) = <<v[2]>>
\* A method of the trait applied to content x and encoder e.
Apply(o, x, h, n, sec, e) ==
    CASE o = "render_escaped" -> render_escaped(x, e)
      [] o = "render_unescaped" -> render_unescaped(x, e)
      [] o = "render_cmark" -> render_cmark(x, e)
      [] o = "render_section" -> render_section(x, sec, e)
      [] o = "render_inverse" -> render_inverse(x, sec, e)
      [] o = "render_field_escaped" -> render_field_escaped(x, h, n, e)
      [] o = "render_field_unescaped" -> render_field_unescaped(x, h, n, e)
      [] o = "render_field_section" -> render_field_section(x, h, n, sec, e)
      [] o = "render_field_inverse" -> render_field_inverse(x, h, n, sec, e)

ScalarOps == {"render_escaped", "render_unescaped", "render_cmark"}
SectionOps == {"render_section", "render_inverse"}
FieldOps ==
    {"render_field_escaped", "render_field_unescaped",
     "render_field_section", "render_field_inverse"}
RenderOps == ScalarOps \cup SectionOps \cup FieldOps

\* The method a field method stands for on the value found under the name.
Unfield(o) ==
    CASE o = "render_field_escaped" -> "render_escaped"
      [] o = "render_field_unescaped" -> "render_unescaped"
      [] o = "render_field_section" -> "render_section"
      [] o = "render_field_inverse" -> "render_inverse"

\* C3: a field method of a HashMap or BTreeMap does, when the name is a key,
\* exactly what the corresponding plain method does on the mapped value
\* (same result, same writes, same render_once invocations); when the name
\* is not a key it writes nothing, invokes nothing and succeeds; and the
\* outcome is the same for every hash.
C3_MapFieldLookup ==
    (pc = "done" /\ op \in FieldOps /\ IsMap(v)) =>
        /\ name \in DOMAIN v[2] =>
              R(res, enc) = Apply(Unfield(op), v[2][name], hash, name, section, enc0)
        /\ name \notin DOMAIN v[2] => (res = Success /\ enc = enc0)
        /\ \A h \in Hashes : Apply(op, v, h, name, section, enc0) = R(res, enc)

C3_Witness ==
    /\ Done("render_field_unescaped")
    /\ Kind(v) = "HashMap"
    /\ name \in DOMAIN v[2]
    /\ v[2][name] = StrRef(<<"<">>)
    /\ hash # HashOf(name)
    /\ enc.out = <<"<">>

\* C4: for the scalar methods render_escaped, render_unescaped and
\* render_cmark, Some(x) asks the sink for the very writes x asks for, and
\* None asks for none.
C4_OptionScalarAsInner ==
    (pc = "done" /\ op \in ScalarOps) =>
        /\ Kind(v) = "Some" =>
              Writes(enc) = Writes(Apply(op, v[2], hash, name, section, enc0).enc)
        /\ Kind(v) = "None" => Writes(enc) = <<>>

\* C6: in every rendering method the first failed write ends the call: it is
\* the last call made (no write and no render_once after it), its error is
\* the result, the bytes written before it stay, and a call whose writes all
\* succeeded returns success.
FailedAt(e) == {i \in 1..Len(e.log) : ~e.log[i][3]}

Emitted(e) ==
    LET ok == SelectSeq(e.log, LAMBDA ev : IsWrite(ev) /\ ev[3])
    IN  Concat([i \in 1..Len(ok) |-> Emit(ok[i][1], ok[i][2])])

C6_FirstFailureAborts ==
    (pc = "done" /\ op \in RenderOps) =>
        /\ FailedAt(enc) \subseteq {Len(enc.log)}
        /\ FailedAt(enc) # {} => res = enc0.failErr
        /\ FailedAt(enc) = {} => res = Success
        /\ enc.out = Emitted(enc)

C6_Witness ==
    /\ Done("render_section")
    /\ IsSeq(v) /\ Len(v[2]) = 2
    /\ enc0.failAt = 1
    /\ res = "io2"
    /\ Once(enc) = <<v[2][1]>>
    /\ HasText(section)

\* C7: a section whose body is the single escaped tag `name`, rendered with
\* a sequence of maps and a sink that reports no failure, outputs the escaped
\* text found under `name` in each map, in sequence order, with nothing in
\* between and nothing for a map without `name`; [{"name": "A"},
\* {"name": "B"}] gives "AB".
AllMaps(items) == \A i \in 1..Len(items) : IsMap(items[i])

FieldText(m, n) ==
    IF n \in DOMAIN m[2] /\ IsText(m[2][n]) THEN Escape(m[2][n][2]) ELSE <<>>

C7_SectionOverMaps ==
    (Done("render_section") /\ IsSeq(v) /\ AllMaps(v[2])
        /\ section = <<Var("name")>> /\ res = Success) =>
        /\ enc.out = Concat([i \in 1..Len(v[2]) |-> FieldText(v[2][i], "name")])
        /\ v = Example => enc.out = <<"A", "B">>

C7_Witness ==
    /\ Done("render_section")
    /\ v = Example
    /\ section = <<Var("name")>>
    /\ enc.out = <<"A", "B">>

\* C8: Err(e) is falsy whatever e is: is_truthy is false, capacity_hint is 0,
\* the scalar methods write nothing and succeed, render_section never invokes
\* render_once and render_inverse invokes it exactly once; and the writes,
\* the output and the result are those of Err(e2) for every other detail e2.
C8_ErrIsAbsent ==
    (pc = "done" /\ Kind(v) = "Err") =>
        /\ op = "is_truthy" => truthy = FALSE
        /\ op = "capacity_hint" => hint = 0
        /\ op \in ScalarOps => (enc.log = <<>> /\ enc.out = <<>> /\ res = Success)
        /\ op = "render_section" => (Once(enc) = <<>> /\ res = Success)
        /\ op = "render_inverse" => Len(Once(enc)) = 1
        /\ op \in RenderOps =>
              \A e2 \in FailureDetails :
                  LET r == Apply(op, Err(e2), hash, name, section, enc0)
                  IN  /\ r.res = res
                      /\ r.enc.out = enc.out
                      /\ Writes(r.enc) = Writes(enc)

C8_Witness ==
    /\ Done("render_inverse")
    /\ v = Err("d2")
    /\ HasText(section)
    /\ Once(enc) = <<v>>
    /\ enc.out # <<>>

\* C9: render_escaped of a &str or String makes exactly one sink call, an
\* escaped-text write of the string, and its output holds no `<` or `>` and
\* no `&` other than the start of an entity; render_unescaped makes exactly
\* one sink call, an unescaped-text write of the string, and its output is
\* the string itself.
Entities ==
    {<<"&", "l", "t", ";">>, <<"&", "g", "t", ";">>,
     <<"&", "a", "m", "p", ";">>, <<"&", "q", "u", "o", "t", ";">>}

StartsEntity(out, i) ==
    \E ent \in Entities :
        /\ i + Len(ent) - 1 <= Len(out)
        /\ SubSeq(out, i, i + Len(ent) - 1) = ent

NoRawMarkup(out) ==
    \A i \in 1..Len(out) :
        /\ out[i] \notin {"<", ">"}
        /\ out[i] = "&" => StartsEntity(out, i)

C9_TextEscaping ==
    /\ (Done("render_escaped") /\ IsText(v)) =>
          /\ Len(enc.log) = 1
          /\ enc.log[1][1] = "write_escaped" /\ enc.log[1][2] = v[2]
          /\ res = Success => NoRawMarkup(enc.out)
    /\ (Done("render_unescaped") /\ IsText(v)) =>
          /\ Len(enc.log) = 1
          /\ enc.log[1][1] = "write_unescaped" /\ enc.log[1][2] = v[2]
          /\ res = Success => enc.out = v[2]

C9_Witness ==
    /\ Done("render_escaped")
    /\ v = StringOf(<<"<">>)
    /\ res = Success
    /\ enc.out = <<"&", "l", "t", ";">>

\* C10: capacity_hint of a &str or String is the byte length of the string,
\* for every template; of Some(text) or Ok(text) it is the text's hint, and
\* of None or Err(e) it is 0.
C10_CapacityHint ==
    Done("capacity_hint") =>
        /\ IsText(v) => hint = Len(v[2])
        /\ (Kind(v) \in {"Some", "Ok"} /\ IsText(v[2])) => hint = Len(v[2][2])
        /\ Kind(v) \in {"None", "Err"} => hint = 0

C10_Witness ==
    /\ Done("capacity_hint")
    /\ v = Some(StrRef(<<"a", "<">>))
    /\ tpl = "tpl2"
    /\ hint = 2
====
